---- MODULE Spec2Model ----
(***************************************************************************)
(* A model of jupyter_ydoc's YBlob (src/jupyter_ydoc/yblob.py): a document *)
(* whose content is a byte sequence kept base64-encoded under              *)
(* source["base64"] of a shared map, with change observation on the        *)
(* "state" and "source" nodes.                                             *)
(*                                                                         *)
(* Python values are records [type, val, raised]: val is a sequence of     *)
(* numbers (the bytes of a bytes object, the code points of a str), and    *)
(* raised tells a raised exception (named by type) from a returned value.  *)
(***************************************************************************)
EXTENDS Integers, Sequences, FiniteSets, TLC

\* ---------------------------------------------------------------- bounds
\* Longest bytes argument given to set.
MaxBytes == 3
\* Longest str argument given to set.
MaxStrLen == 4
\* Byte values the bytes arguments are built from.
ByteVals == {0, 1, 255}
\* Code points the str arguments are built from: "A", "=" and "!".
StrChars == {65, 61, 33}
\* The callbacks an application may pass to observe.
Callbacks == {"cb1", "cb2"}

SeqsUpTo(S, n) == UNION {[1..k -> S] : k \in 0..n}

\* ---------------------------------------------------------- Python values
Bytes(s) == [type |-> "bytes", val |-> s, raised |-> FALSE]
Str(s) == [type |-> "str", val |-> s, raised |-> FALSE]
PyInt(n) == [type |-> "int", val |-> <<n>>, raised |-> FALSE]
None == [type |-> "NoneType", val |-> <<>>, raised |-> FALSE]
Raise(exc) == [type |-> exc, val |-> <<>>, raised |-> TRUE]

\* The arguments set is called with: bytes, str, and a value that is neither
\* (an int, which the shared map stores like any other JSON-like value).
Values ==
    {Bytes(b) : b \in SeqsUpTo(ByteVals, MaxBytes)}
    \cup {Str(s) : s \in SeqsUpTo(StrChars, MaxStrLen)}
    \cup {PyInt(5)}

\* ------------------------------------------------------------ str <-> bytes
\* str.encode(): UTF-8, one byte below U+0080 and two bytes below U+0800.
RECURSIVE encode(_)
encode(s) ==
    IF s = <<>> THEN <<>>
    ELSE (IF Head(s) < 128 THEN <<Head(s)>>
          ELSE <<192 + (Head(s) \div 64), 128 + (Head(s) % 64)>>)
         \o encode(Tail(s))

\* bytes.decode(): UTF-8, for the one- and two-byte forms.
RECURSIVE decode(_)
decode(b) ==
    IF b = <<>> THEN <<>>
    ELSE IF Head(b) < 128 THEN <<Head(b)>> \o decode(Tail(b))
    ELSE <<(Head(b) - 192) * 64 + (b[2] - 128)>> \o decode(Tail(Tail(b)))

\* ------------------------------------------------------------------ base64
BASE64_PAD == 61

\* "ABCDEFGHIJKLMNOPQRSTUVWXYZabcdefghijklmnopqrstuvwxyz0123456789+/"
table_b2a_base64(i) ==
    IF i < 26 THEN 65 + i
    ELSE IF i < 52 THEN 97 + (i - 26)
    ELSE IF i < 62 THEN 48 + (i - 52)
    ELSE IF i = 62 THEN 43
    ELSE 47

\* The sextet of a character of the alphabet, and 64 for any other byte.
table_a2b_base64(c) ==
    IF c >= 65 /\ c <= 90 THEN c - 65
    ELSE IF c >= 97 /\ c <= 122 THEN c - 97 + 26
    ELSE IF c >= 48 /\ c <= 57 THEN c - 48 + 52
    ELSE IF c = 43 THEN 62
    ELSE IF c = 47 THEN 63
    ELSE 64

\* base64.b64encode without padding: the mutant of b64encode.
RECURSIVE b64encode_nopad(_)
b64encode_nopad(b) ==
    IF Len(b) = 0 THEN <<>>
    ELSE IF Len(b) = 1 THEN
        <<table_b2a_base64(b[1] \div 4), table_b2a_base64((b[1] % 4) * 16)>>
    ELSE IF Len(b) = 2 THEN
        <<table_b2a_base64(b[1] \div 4),
          table_b2a_base64((b[1] % 4) * 16 + (b[2] \div 16)),
          table_b2a_base64((b[2] % 16) * 4)>>
    ELSE
        <<table_b2a_base64(b[1] \div 4),
          table_b2a_base64((b[1] % 4) * 16 + (b[2] \div 16)),
          table_b2a_base64((b[2] % 16) * 4 + (b[3] \div 64)),
          table_b2a_base64(b[3] % 64)>>
        \o b64encode_nopad(SubSeq(b, 4, Len(b)))

\* base64.b64encode: three bytes give four characters; a last group of one
\* or two bytes is padded with "=" to four characters.
RECURSIVE b64encode(_)
b64encode(b) ==
    IF Len(b) = 0 THEN <<>>
    ELSE IF Len(b) = 1 THEN
        <<table_b2a_base64(b[1] \div 4), table_b2a_base64((b[1] % 4) * 16),
          BASE64_PAD, BASE64_PAD>>
    ELSE IF Len(b) = 2 THEN
        <<table_b2a_base64(b[1] \div 4),
          table_b2a_base64((b[1] % 4) * 16 + (b[2] \div 16)),
          table_b2a_base64((b[2] % 16) * 4),
          BASE64_PAD>>
    ELSE
        <<table_b2a_base64(b[1] \div 4),
          table_b2a_base64((b[1] % 4) * 16 + (b[2] \div 16)),
          table_b2a_base64((b[2] % 16) * 4 + (b[3] \div 64)),
          table_b2a_base64(b[3] % 64)>>
        \o b64encode(SubSeq(b, 4, Len(b)))

\* binascii.a2b_base64 in its default, non-strict mode, as base64.b64decode
\* calls it: bytes outside the alphabet are skipped, "=" ends the input once
\* it completes a group of four, and an incomplete last group is an error.
RECURSIVE a2b_base64(_, _, _, _, _, _)
a2b_base64(s, i, quad_pos, leftchar, pads, out) ==
    IF i > Len(s) THEN
        IF quad_pos # 0 THEN Raise("binascii.Error") ELSE Bytes(out)
    ELSE IF s[i] = BASE64_PAD THEN
        IF quad_pos >= 2 /\ quad_pos + pads + 1 >= 4 THEN Bytes(out)
        ELSE a2b_base64(s, i + 1, quad_pos, leftchar,
                        IF quad_pos >= 2 THEN pads + 1 ELSE pads, out)
    ELSE LET this_ch == table_a2b_base64(s[i]) IN
        IF this_ch >= 64 THEN a2b_base64(s, i + 1, quad_pos, leftchar, pads, out)
        ELSE IF quad_pos = 0 THEN a2b_base64(s, i + 1, 1, this_ch, 0, out)
        ELSE IF quad_pos = 1 THEN
            a2b_base64(s, i + 1, 2, this_ch % 16, 0,
                       Append(out, leftchar * 4 + (this_ch \div 16)))
        ELSE IF quad_pos = 2 THEN
            a2b_base64(s, i + 1, 3, this_ch % 4, 0,
                       Append(out, leftchar * 16 + (this_ch \div 4)))
        ELSE
            a2b_base64(s, i + 1, 0, 0, 0, Append(out, leftchar * 64 + this_ch))

b64decode(s) == a2b_base64(s, 1, 0, 0, 0, <<>>)

\* ------------------------------------------------------------- shared map
\* A map is a function from the keys it holds.
EmptyMap == [k \in {} |-> None]
MapGet(m, key, default) == IF key \in DOMAIN m THEN m[key] ELSE default
MapSet(m, key, v) == [k \in DOMAIN m \cup {key} |-> IF k = key THEN v ELSE m[k]]

\* ------------------------------------------------------------ observation
Nodes == {"state", "source"}
Labels == {"state", "source"}

\* How often each callback was invoked with each label.
NoCalls == [p \in Callbacks \X Labels |-> 0]

\* A mutation of a node invokes every handler registered on it once.
Notify(obs, node) ==
    [p \in Callbacks \X Labels |->
        Cardinality({h \in obs[node] : h.cb = p[1] /\ h.label = p[2]})]

\* node.observe(partial(callback, label)): registers a handler on the node
\* and returns its handle; the node does not deduplicate handlers.
NewHandle(obs, node, callback, label) ==
    [id |-> CHOOSE i \in 1..(Cardinality(obs[node]) + 1) :
                \A h \in obs[node] : h.id # i,
     cb |-> callback, label |-> label]

\* ------------------------------------------------------------------ state
VARIABLES
    ysource,        \* the "source" map of the document
    nodeObs,        \* per node, the handlers registered on it
    subscriptions,  \* the document's table: node -> handle
    lastOp,         \* the last call: its name, argument, outcome, callbacks
    lastSet,        \* the argument of the most recent set (None before any)
    prevOp,         \* the name of the call before the last one
    observed,       \* the callback of the last observe not followed by unobserve
    everObserved    \* whether observe was ever called

vars == <<ysource, nodeObs, subscriptions, lastOp, prevOp, lastSet, observed, everObserved>>

Call(op, arg, result, calls) ==
    [op |-> op, arg |-> arg, result |-> result, calls |-> calls]

\* ------------------------------------------------------------ the methods
\* version returning a string that follows the content: the mutant of version.
version_of_content(m) ==
    IF "base64" \in DOMAIN m THEN Str(<<49, 46, 48, 46, 49>>)
    ELSE Str(<<49, 46, 48, 46, 48>>)

\* YBlob.version: the string "1.0.0".
version(m) == Str(<<49, 46, 48, 46, 48>>)

\* get returning the stored text undecoded: a mutant of get.
get_undecoded(m) ==
    LET v == MapGet(m, "base64", Str(<<>>)) IN
    IF v.type # "str" THEN Raise("AttributeError")
    ELSE Bytes(encode(v.val))

\* get indexing the map instead of defaulting: a mutant of get.
get_no_default(m) ==
    IF "base64" \notin DOMAIN m THEN Raise("KeyError")
    ELSE IF m["base64"].type # "str" THEN Raise("AttributeError")
    ELSE b64decode(encode(m["base64"].val))

\* YBlob.get: base64.b64decode(self._ysource.get("base64", "").encode()).
get(m) ==
    LET v == MapGet(m, "base64", Str(<<>>)) IN
    IF v.type # "str" THEN Raise("AttributeError")
    ELSE b64decode(encode(v.val))

\* set encoding whatever it is given: the mutant of stored.
stored_always_encoded(value) == Str(decode(b64encode(value.val)))

\* The value YBlob.set writes: bytes are encoded, anything else is written
\* as it is.
stored(value) ==
    IF value.type = "bytes" THEN Str(decode(b64encode(value.val)))
    ELSE value

\* YBlob.set: self._ysource["base64"] = value.
set(m, value) == MapSet(m, "base64", stored(value))

\* YBaseDoc.unobserve: releases every handle of the table and empties it.
unobserve(st) ==
    [obs |-> [n \in Nodes |->
                IF n \in DOMAIN st.subs THEN st.obs[n] \ {st.subs[n]}
                ELSE st.obs[n]],
     subs |-> EmptyMap]

\* One registration of observe: the handle is put in the table under the node.
Subscribe(st, node, callback, label) ==
    LET h == NewHandle(st.obs, node, callback, label) IN
    [obs |-> [st.obs EXCEPT ![node] = @ \cup {h}],
     subs |-> MapSet(st.subs, node, h)]

\* observe without the release of the earlier handles: a mutant of observe.
observe_no_release(st, callback) ==
    Subscribe(Subscribe(st, "state", callback, "state"),
              "source", callback, "source")

\* observe with the two labels exchanged: a mutant of observe.
observe_swapped(st, callback) ==
    Subscribe(Subscribe(unobserve(st), "state", callback, "source"),
              "source", callback, "state")

\* observe that does not keep the handles it gets: a mutant of observe.
observe_untracked(st, callback) ==
    [obs |-> Subscribe(Subscribe(unobserve(st), "state", callback, "state"),
                       "source", callback, "source").obs,
     subs |-> EmptyMap]

\* YBlob.observe: unobserve, then one subscription on each node.
observe(st, callback) ==
    Subscribe(Subscribe(unobserve(st), "state", callback, "state"),
              "source", callback, "source")

\* -------------------------------------------------------------- the calls
Init ==
    /\ ysource = EmptyMap
    /\ nodeObs = [n \in Nodes |-> {}]
    /\ subscriptions = EmptyMap
    /\ lastOp = Call("init", None, None, NoCalls)
    /\ prevOp = "init"
    /\ lastSet = None
    /\ observed = "none"
    /\ everObserved = FALSE

Set(value) ==
    /\ ysource' = set(ysource, value)
    /\ lastOp' = Call("set", value, None, Notify(nodeObs, "source"))
    /\ prevOp' = lastOp.op
    /\ lastSet' = value
    /\ UNCHANGED <<nodeObs, subscriptions, observed, everObserved>>

Get ==
    /\ lastOp' = Call("get", None, get(ysource), NoCalls)
    /\ prevOp' = lastOp.op
    /\ UNCHANGED <<ysource, nodeObs, subscriptions, lastSet, observed, everObserved>>

Version ==
    /\ lastOp' = Call("version", None, version(ysource), NoCalls)
    /\ prevOp' = lastOp.op
    /\ UNCHANGED <<ysource, nodeObs, subscriptions, lastSet, observed, everObserved>>

Observe(callback) ==
    LET st == observe([obs |-> nodeObs, subs |-> subscriptions], callback) IN
    /\ nodeObs' = st.obs
    /\ subscriptions' = st.subs
    /\ lastOp' = Call("observe", None, None, NoCalls)
    /\ prevOp' = lastOp.op
    /\ observed' = callback
    /\ everObserved' = TRUE
    /\ UNCHANGED <<ysource, lastSet>>

Unobserve ==
    LET st == unobserve([obs |-> nodeObs, subs |-> subscriptions]) IN
    /\ nodeObs' = st.obs
    /\ subscriptions' = st.subs
    /\ lastOp' = Call("unobserve", None, None, NoCalls)
    /\ prevOp' = lastOp.op
    /\ observed' = "none"
    /\ UNCHANGED <<ysource, lastSet, everObserved>>

Next ==
    \/ \E value \in Values : Set(value)
    \/ Get
    \/ Version
    \/ \E callback \in Callbacks : Observe(callback)
    \/ Unobserve

Spec == Init /\ [][Next]_vars

\* ------------------------------------------------------------ the claims
\* Valid base64 text (RFC 4648): a multiple of four characters, all of the
\* alphabet, except for one or two "=" that end the text.
IsBase64(s) ==
    /\ Len(s) % 4 = 0
    /\ \A i \in 1..Len(s) :
        \/ table_a2b_base64(s[i]) < 64
        \/ /\ s[i] = BASE64_PAD
           /\ i >= Len(s) - 1
           /\ s[Len(s)] = BASE64_PAD

\* C1: a get issued after set(b), b a byte sequence, with no set in between
\* returns exactly b, whatever was set before.
C1_GetReturnsLastSetBytes ==
    (lastOp.op = "get" /\ lastSet.type = "bytes")
        => lastOp.result = Bytes(lastSet.val)

\* A get that follows set(b"\x00\x01\xff"), stored as "AAH/", with another
\* call in between.
C1_Witness ==
    /\ lastOp.op = "get"
    /\ prevOp # "set"
    /\ lastSet = Bytes(<<0, 1, 255>>)
    /\ ysource["base64"] = Str(<<65, 65, 72, 47>>)
    /\ lastOp.result = Bytes(<<0, 1, 255>>)

\* C2: a set with a value that is neither bytes nor text ends in an error
\* and leaves source["base64"] as it was.
C2_SetRejectsOtherTypes ==
    [][(lastOp'.op = "set" /\ lastOp'.arg.type \notin {"bytes", "str"})
        => (lastOp'.result.raised /\ ysource' = ysource)]_vars

\* C3: whenever the string stored under source["base64"] is not valid base64
\* text, get ends in an error and returns no byte sequence.
C3_GetFailsOnMalformed ==
    (/\ lastOp.op = "get"
     /\ "base64" \in DOMAIN ysource
     /\ ysource["base64"].type = "str"
     /\ ~IsBase64(ysource["base64"].val))
        => lastOp.result.raised

\* C4, as claimed: in every state reached by set calls with bytes or with
\* string arguments, source["base64"] is absent or holds valid base64 text.
C4_StoredAlwaysBase64 ==
    (lastSet.type \in {"NoneType", "bytes", "str"})
        => \/ "base64" \notin DOMAIN ysource
           \/ /\ ysource["base64"].type = "str"
              /\ IsBase64(ysource["base64"].val)

\* C4, amended: source["base64"] is absent before any set, and holds valid
\* base64 text when the most recent set was given bytes or a valid base64
\* string; a string that is not valid base64 is stored as given.
C4_StoredBase64AfterValidSet ==
    /\ lastSet = None => "base64" \notin DOMAIN ysource
    /\ (\/ lastSet.type = "bytes"
        \/ (lastSet.type = "str" /\ IsBase64(lastSet.val)))
        => /\ "base64" \in DOMAIN ysource
           /\ ysource["base64"].type = "str"
           /\ IsBase64(ysource["base64"].val)
    /\ (lastSet.type = "str" /\ ~IsBase64(lastSet.val))
        => ysource = MapSet(EmptyMap, "base64", lastSet)

\* A set of two bytes, whose encoding "/wE=" ends in one "=".
C4_Witness ==
    /\ lastOp.op = "set"
    /\ lastSet = Bytes(<<255, 1>>)
    /\ ysource["base64"] = Str(<<47, 119, 69, 61>>)

\* C5: each node has exactly one subscription, the one of the last observe,
\* when the last of the observe and unobserve calls was observe, and none
\* when it was unobserve (or when there was no such call).
C5_OneSubscriptionPerNode ==
    /\ observed # "none" =>
        \A n \in Nodes :
            /\ n \in DOMAIN subscriptions
            /\ nodeObs[n] = {subscriptions[n]}
            /\ subscriptions[n].cb = observed
    /\ observed = "none" =>
        /\ subscriptions = EmptyMap
        /\ \A n \in Nodes : nodeObs[n] = {}

\* An observe that follows an observe directly.
C5_Witness ==
    /\ lastOp.op = "observe"
    /\ prevOp = "observe"
    /\ observed = "cb2"
    /\ \A n \in Nodes : Cardinality(nodeObs[n]) = 1

\* C6: while a callback is registered through observe, a set invokes it
\* exactly once with the label "source" and never with the label "state".
C6_SetNotifiesSourceOnce ==
    (lastOp.op = "set" /\ observed # "none")
        => /\ lastOp.calls[<<observed, "source">>] = 1
           /\ lastOp.calls[<<observed, "state">>] = 0

\* A set made right after observe(cb1).
C6_Witness ==
    /\ lastOp.op = "set"
    /\ prevOp = "observe"
    /\ observed = "cb1"
    /\ lastOp.calls[<<"cb1", "source">>] = 1

\* C7: a set made after unobserve, and before the next observe, invokes no
\* callback.
C7_NoCallbackAfterUnobserve ==
    (lastOp.op = "set" /\ observed = "none") => lastOp.calls = NoCalls

\* A set that follows the unobserve of a document that was observed.
C7_Witness ==
    /\ lastOp.op = "set"
    /\ prevOp = "unobserve"
    /\ everObserved
    /\ observed = "none"
    /\ lastOp.calls = NoCalls

\* C8: after set(s), s a valid base64 string, source["base64"] holds s.
C8_StringStoredAsIs ==
    (lastOp.op = "set" /\ lastOp.arg.type = "str" /\ IsBase64(lastOp.arg.val))
        => ysource["base64"] = lastOp.arg

\* set("AA==").
C8_Witness ==
    /\ lastOp.op = "set"
    /\ lastOp.arg = Str(<<65, 65, 61, 61>>)
    /\ ysource["base64"] = Str(<<65, 65, 61, 61>>)

\* C9: version returns "1.0.0" in every state.
C9_VersionIsConstant ==
    lastOp.op = "version" => lastOp.result = Str(<<49, 46, 48, 46, 48>>)

\* version asked of a document that holds content and is observed.
C9_Witness ==
    /\ lastOp.op = "version"
    /\ "base64" \in DOMAIN ysource
    /\ observed # "none"
    /\ lastOp.result = Str(<<49, 46, 48, 46, 48>>)

\* C10: get on a source map without the key "base64" returns the empty byte
\* sequence.
C10_GetDefaultsToEmpty ==
    (lastOp.op = "get" /\ "base64" \notin DOMAIN ysource)
        => lastOp.result = Bytes(<<>>)

\* get on a document nothing was set on.
C10_Witness ==
    /\ lastOp.op = "get"
    /\ "base64" \notin DOMAIN ysource
    /\ lastSet = None
    /\ lastOp.result = Bytes(<<>>)

====
